---- MODULE Spec2Model ----
(***************************************************************************)
(* A model of bombsimon/http-helpers: the middleware chain                 *)
(* (AddMiddlewares, the order-recording stages of Test_Order, RateLimiter  *)
(* on top of golang.org/x/time/rate) and the GracefulShutdown coordinator  *)
(* on top of net/http's Server.Shutdown.                                   *)
(*                                                                         *)
(* Time is a discrete clock.  The token bucket of rate.Limiter holds a     *)
(* float64 number of tokens; here it is held exactly, in units of          *)
(* 1/every of a token, where every is the number of clock ticks of the     *)
(* refill interval: one tick of elapsed time adds one unit, one request    *)
(* costs `every` units, the capacity is burst * every units.               *)
(***************************************************************************)
EXTENDS Integers, Sequences, FiniteSets, TLC

\* ------------------------------------------------------------------ bounds
NumReqs == 2        \* requests issued against the handler
MaxStages == 3      \* stages passed to AddMiddlewares
MaxLimit == 2       \* largest limit argument of RateLimiter
MaxBurst == 2       \* largest burst argument of RateLimiter
Interval == 2       \* clock ticks of the interval argument of RateLimiter
MaxClock == 2       \* the limiter's clock stops advancing here
MaxWait == 1        \* largest waitTime argument of GracefulShutdown, in ticks
MaxSignals == 2     \* termination signals sent to the process
MaxCalls == 3       \* limiter.Allow() calls made on one limiter by itself
MaxOps == 2         \* WriteHeader and Write calls a scripted handler makes

StatusOK == 200
StatusTooManyRequests == 429

Reqs == 1..NumReqs

VARIABLES
    chain,            \* the middlewares passed to AddMiddlewares, in order
    handlerWithMiddleware, \* what AddMiddlewares returned
    args,             \* the arguments RateLimiter was called with
    limiter,          \* the rate.Limiter closed over by the RateLimiter stage
    clock,            \* time.Now()
    conn,             \* per request: "none", "active", "idle", "closed", "aborted"
    stack,            \* per request: the call stack of ServeHTTP frames
    now,              \* per request: the time.Now() read by limiter.Allow(), 0 outside it
    events,           \* per request: what its stages and handler logged
    resp,             \* per request: status code and body lines written
    timesCalled,      \* executions of the terminal handler
    info,             \* per request: the ResponseWriterWithInfo around its writer
    logs,             \* per request: entries of Logger and PanicRecovery, counts of Prometheus
    panicking,        \* per request: the value of the panic in flight, "" if none
    decisions,        \* history: the limiter's decisions, in lock order
    alive,            \* the process has not been killed by a signal
    listening,        \* ListenAndServe is accepting connections
    inShutdown,       \* http.Server.inShutdown
    waitTime,         \* argument of GracefulShutdown
    logger,           \* argument of GracefulShutdown: TRUE when not nil
    pc,               \* position of the goroutine started by GracefulShutdown
    notified,         \* signals relayed to gracefulStop by signal.Notify
    gracefulStop,     \* the buffered channel (capacity 1): signals queued in it
    deadline,         \* deadline of ctx, -1 before context.WithTimeout
    shutdownErr,      \* what server.Shutdown returned: "none", "nil", "deadline", "listener"
    lnerr,            \* closing the listener failed
    idleConnsClosed,  \* number of close(idleConnsClosed) executed
    shutdownCalls,    \* number of server.Shutdown calls
    sent,             \* history: signals delivered to the process
    inFlight,         \* history: requests executing when the first signal was sent
    expiredWith,      \* history: requests still executing when ctx expired in Shutdown
    unanswered,       \* history: in-flight requests without a response at the close
    steps             \* history: logging, Shutdown and close steps of the goroutine

reqVars == <<conn, stack, now, events, resp, timesCalled, decisions, limiter>>
obsVars == <<info, logs, panicking>>
cfgVars == <<chain, handlerWithMiddleware, args, waitTime, logger>>
srvVars == <<alive, listening, inShutdown, pc, notified, gracefulStop, deadline,
             shutdownErr, lnerr, idleConnsClosed, shutdownCalls, sent, inFlight, expiredWith, unanswered, steps>>
vars == <<cfgVars, obsVars, reqVars, srvVars, clock>>

\* ------------------------------------------------------------ small helpers
Min(a, b) == IF a < b THEN a ELSE b

Top(s) == s[Len(s)]

Pop(s) == SubSeq(s, 1, Len(s) - 1)

RECURSIVE Reverse(_)
Reverse(s) == IF s = <<>> THEN <<>> ELSE Append(Reverse(Tail(s)), Head(s))

\* ------------------------------------------------- golang.org/x/time/rate
\* rate.NewLimiter(rate.Every(interval), b): a full bucket of b tokens.
NewLimiter(every, b) ==
    [every |-> every, burst |-> b, tokens |-> b * every, last |-> 0]

\* (*Limiter).advance: the tokens at time t, capped at the burst in force.
advance(lim, t) ==
    LET last    == IF t < lim.last THEN t ELSE lim.last
        elapsed == t - last
        tokens  == lim.tokens + elapsed
        cap     == lim.burst * lim.every
    IN  IF tokens > cap THEN cap ELSE tokens

\* (*Limiter).SetBurstAt: advance under the old burst, then store the new one.
SetBurstAt(lim, t, newBurst) ==
    [lim EXCEPT !.last = t, !.tokens = advance(lim, t), !.burst = newBurst]

\* Mutant of reserveN: the decision is taken but the decrement is not stored.
reserveNLostDecrement(lim, t, n) ==
    LET tokens == advance(lim, t) - n * lim.every
    IN  [ok |-> n <= lim.burst /\ tokens >= 0, lim |-> lim]

\* Mutant of reserveN: the tokens are taken from the bucket even when the
\* request is refused.
reserveNChargeRejected(lim, t, n) ==
    LET tokens == advance(lim, t) - n * lim.every
    IN  [ok  |-> n <= lim.burst /\ tokens >= 0,
         lim |-> [lim EXCEPT !.last = t, !.tokens = tokens]]

\* (*Limiter).reserveN with maxFutureReserve = 0, as Allow() calls it, under lim.mu.
reserveN(lim, t, n) ==
    LET tokens == advance(lim, t) - n * lim.every
        ok     == n <= lim.burst /\ tokens >= 0
    IN  [ok  |-> ok,
         lim |-> IF ok THEN [lim EXCEPT !.last = t, !.tokens = tokens] ELSE lim]

\* ------------------------------------------------------------ middleware
\* The terminal handler of the tests: logs its name, writes body (if any).
terminalHandler(body) == [kind |-> "handler", name |-> "the handler", body |-> body]

StageNames == <<"one", "two", "three", "four", "five">>

\* createMiddleware(logString) of Test_Order: a Middleware value.
createMiddleware(logString) == [kind |-> "record", name |-> logString]

\* RateLimiter(interval, limit, burst): the limiter it builds ...
RateLimiterLimiter(interval, limit, burst) ==
    SetBurstAt(NewLimiter(interval, limit), 0, burst)

\* ... and the Middleware value it returns.
RateLimiter == [kind |-> "ratelimit", name |-> "ratelimit"]

\* Logger(logger): a Middleware value; name tells its entries from those of
\* another Logger stage of the chain.
Logger(name) == [kind |-> "logger", name |-> name]

\* PanicRecovery(logger): a Middleware value.
PanicRecovery(name) == [kind |-> "recovery", name |-> name]

\* Prometheus(): the collectors are locals of the call, assigned inside
\* metricsRegisterOnce.Do; once tells whether the Once has run before.  The
\* Middleware value closes over the locals: nil when Do did not run.
Prometheus(name, once) ==
    [mw   |-> [kind |-> "prometheus", name |-> name, collectors |-> ~once],
     once |-> TRUE]

\* middleware(h): the handler a Middleware value returns for next handler h,
\* a closure over h and over what the Middleware value closed over (mw).
Wrap(middleware, h) ==
    [kind |-> middleware.kind, name |-> middleware.name, next |-> h, mw |-> middleware]

\* Mutant of AddMiddlewares: the first middleware passed ends up outermost.
RECURSIVE AddMiddlewaresFirstOutermost(_, _)
AddMiddlewaresFirstOutermost(h, middlewares) ==
    IF middlewares = <<>> THEN h
    ELSE Wrap(Head(middlewares), AddMiddlewaresFirstOutermost(h, Tail(middlewares)))

\* AddMiddlewares(h, middlewares...): for _, middleware := range middlewares { h = middleware(h) }
RECURSIVE AddMiddlewares(_, _)
AddMiddlewares(h, middlewares) ==
    IF middlewares = <<>> THEN h
    ELSE AddMiddlewares(Wrap(Head(middlewares), h), Tail(middlewares))

\* The chains the model builds: MaxStages stages; stage p (if any) is the
\* RateLimiter, the others are createMiddleware stages named by their position.
Chains ==
    { [i \in 1..MaxStages |-> IF i = p THEN RateLimiter
                              ELSE createMiddleware(StageNames[i])] : p \in 0..MaxStages }

HasLimiter(c) == \E i \in 1..Len(c) : c[i].kind = "ratelimit"

\* The chains of the Logger, PanicRecovery and Prometheus tests: MaxStages
\* stages; stage p (if any) is PanicRecovery, the others are all of one kind:
\* createMiddleware stages, Logger stages, the stage of the first call of
\* Prometheus() in the process, or the stage of a second call.
FillerKinds == {"record", "logger", "prometheus", "prometheus again"}

Filler(kind, name) ==
    CASE kind = "record" -> createMiddleware(name)
      [] kind = "logger" -> Logger(name)
      [] kind = "prometheus" -> Prometheus(name, FALSE).mw
      [] kind = "prometheus again" -> Prometheus(name, Prometheus(name, FALSE).once).mw

ObsChains ==
    { [i \in 1..MaxStages |-> IF i = p THEN PanicRecovery(StageNames[i])
                              ELSE Filler(k, StageNames[i])] :
        p \in 0..MaxStages, k \in FillerKinds }

\* A handler that makes a sequence of WriteHeader and Write calls and then
\* returns or panics (as the handler of Test_PanicRecovery does).
Codes == {404, 500}

Ops == { [op |-> "WriteHeader", code |-> c] : c \in Codes } \cup { [op |-> "Write", code |-> 0] }

Scripts == UNION { [1..n -> Ops] : n \in 0..MaxOps }

scriptedHandler(script) == [kind |-> "scripted", name |-> "the handler", script |-> script]

PanicValue == "i'm just going to panic here if that's ok..."

NilDereference == "runtime error: invalid memory address or nil pointer dereference"

\* ------------------------------------------------------- response writer
NoResponse == [status |-> 0, body |-> <<>>]

\* http.ResponseWriter.WriteHeader: the first call decides the status.
WriteHeader(w, code) == IF w.status = 0 THEN [w EXCEPT !.status = code] ELSE w

\* http.ResponseWriter.Write of one line: an implicit WriteHeader(200) first.
WriteLine(w, line) ==
    [WriteHeader(w, StatusOK) EXCEPT !.body = Append(@, line)]

\* http.StatusText(http.StatusTooManyRequests)
StatusText(code) == IF code = StatusTooManyRequests THEN "Too Many Requests" ELSE "OK"

\* http.Error(w, error, code): WriteHeader(code), then fmt.Fprintln(w, error):
\* the text as one line.
Error(w, error, code) == WriteLine(WriteHeader(w, code), error)

\* ResponseWriterWithInfo: no wrapper yet ...
NoInfo == [wrapped |-> FALSE, statusCode |-> 0]

\* ... NewResponseWriter(r): the wrapper r already is, or a new one ...
NewResponseWriter(rw) ==
    IF rw.wrapped THEN rw ELSE [wrapped |-> TRUE, statusCode |-> StatusOK]

\* ... and its WriteHeader, on the pair of the wrapper and the writer below:
\* r.statusCode = code; r.ResponseWriter.WriteHeader(code).
WriteHeaderWithInfo(st, code) ==
    [rw |-> [st.rw EXCEPT !.statusCode = code], w |-> WriteHeader(st.w, code)]

\* The calls of a scripted handler on the writer it was given: the wrapper
\* if a stage outside made one (Write is promoted from the embedded writer),
\* the server's writer otherwise.
RECURSIVE ServeScript(_, _)
ServeScript(script, st) ==
    IF script = <<>> THEN st
    ELSE LET o == Head(script)
             nx == IF o.op = "Write" THEN [st EXCEPT !.w = WriteLine(@, "body")]
                   ELSE IF st.rw.wrapped THEN WriteHeaderWithInfo(st, o.code)
                   ELSE [st EXCEPT !.w = WriteHeader(@, o.code)]
         IN  ServeScript(Tail(script), nx)

\* --------------------------------------------------- one request's steps
Frame(h, at) == [h |-> h, pc |-> at]

Running(r) == alive /\ conn[r] = "active" /\ stack[r] # <<>>

\* Return from the top frame to its caller.  A RateLimiter frame that has
\* called h.ServeHTTP has no code left and returns with it; so does a
\* PanicRecovery frame, whose deferred function finds recover() nil.
RECURSIVE Return(_)
Return(s) ==
    LET t == Pop(s)
    IN  IF t # <<>> /\ \/ Top(t).h.kind = "ratelimit" /\ Top(t).pc = "served"
                       \/ Top(t).h.kind = "recovery" /\ Top(t).pc = "deferred"
        THEN Return(t) ELSE t

\* Mutant of Unwind: only the panicking frame is discarded, its caller goes on
\* as if the call had returned.
UnwindOneFrame(s) == Pop(s)

\* A panic unwinds the stack to the nearest frame with a deferred recover(),
\* which continues in its deferred function; the frames above it are gone.
RECURSIVE Unwind(_)
Unwind(s) ==
    IF s = <<>> THEN <<>>
    ELSE IF Top(s).h.kind = "recovery" /\ Top(s).pc = "deferred"
    THEN [s EXCEPT ![Len(s)].pc = "recover"]
    ELSE Unwind(Pop(s))

\* Call h.ServeHTTP from the top frame, which continues at `at` afterwards.
Call(s, at) == Append([s EXCEPT ![Len(s)].pc = at], Frame(Top(s).h.next, "call"))

\* Mutant of Accept: connections are accepted whatever the state of the server.
AcceptWhileDraining(r) ==
    /\ alive
    /\ conn[r] = "none"
    /\ \A q \in Reqs : q < r => conn[q] # "none"
    /\ conn' = [conn EXCEPT ![r] = "active"]
    /\ stack' = [stack EXCEPT ![r] = <<Frame(handlerWithMiddleware, "call")>>]
    /\ UNCHANGED <<now, events, resp, timesCalled, decisions, limiter>>
    /\ UNCHANGED <<cfgVars, obsVars, srvVars, clock>>

\* The server accepts a connection and starts the handler in a goroutine.
\* Requests are numbered in the order they are accepted.
Accept(r) ==
    /\ alive /\ listening /\ ~inShutdown
    /\ conn[r] = "none"
    /\ \A q \in Reqs : q < r => conn[q] # "none"
    /\ conn' = [conn EXCEPT ![r] = "active"]
    /\ stack' = [stack EXCEPT ![r] = <<Frame(handlerWithMiddleware, "call")>>]
    /\ UNCHANGED <<now, events, resp, timesCalled, decisions, limiter>>
    /\ UNCHANGED <<cfgVars, obsVars, srvVars, clock>>

\* createMiddleware: logger.Println(logString), then h.ServeHTTP(rw, r).
RecordBefore(r) ==
    /\ Running(r)
    /\ Top(stack[r]).h.kind = "record" /\ Top(stack[r]).pc = "call"
    /\ events' = [events EXCEPT ![r] = Append(@, Top(stack[r]).h.name)]
    /\ stack' = [stack EXCEPT ![r] = Call(@, "after")]
    /\ UNCHANGED <<conn, now, resp, timesCalled, decisions, limiter>>
    /\ UNCHANGED <<cfgVars, obsVars, srvVars, clock>>

\* createMiddleware: logger.Println(logString) after h.ServeHTTP returned.
RecordAfter(r) ==
    /\ Running(r)
    /\ Top(stack[r]).h.kind = "record" /\ Top(stack[r]).pc = "after"
    /\ events' = [events EXCEPT ![r] = Append(@, Top(stack[r]).h.name)]
    /\ stack' = [stack EXCEPT ![r] = Return(@)]
    /\ UNCHANGED <<conn, now, resp, timesCalled, decisions, limiter>>
    /\ UNCHANGED <<cfgVars, obsVars, srvVars, clock>>

\* The terminal handler: logs, counts itself, writes its body (if it has one).
Terminal(r) ==
    /\ Running(r)
    /\ Top(stack[r]).h.kind = "handler"
    /\ events' = [events EXCEPT ![r] = Append(@, Top(stack[r]).h.name)]
    /\ timesCalled' = timesCalled + 1
    /\ resp' = [resp EXCEPT ![r] =
                  IF Top(stack[r]).h.body = <<>> THEN @
                  ELSE WriteLine(@, Top(stack[r]).h.body[1])]
    /\ stack' = [stack EXCEPT ![r] = Return(@)]
    /\ UNCHANGED <<conn, now, decisions, limiter>>
    /\ UNCHANGED <<cfgVars, obsVars, srvVars, clock>>

\* limiter.Allow() is AllowN(time.Now(), 1): the clock is read before lim.mu
\* is taken.
LimiterNow(r) ==
    /\ Running(r)
    /\ Top(stack[r]).h.kind = "ratelimit" /\ Top(stack[r]).pc = "call"
    /\ now' = [now EXCEPT ![r] = clock]
    /\ stack' = [stack EXCEPT ![r][Len(stack[r])].pc = "allow"]
    /\ UNCHANGED <<conn, events, resp, timesCalled, decisions, limiter>>
    /\ UNCHANGED <<cfgVars, obsVars, srvVars, clock>>

\* Mutant of LimiterAllow: the return after http.Error is missing.
LimiterAllowNoReturn(r) ==
    /\ Running(r)
    /\ Top(stack[r]).h.kind = "ratelimit" /\ Top(stack[r]).pc = "allow"
    /\ LET res == reserveN(limiter, now[r], 1)
       IN  /\ limiter' = res.lim
           /\ decisions' = Append(decisions, [ok |-> res.ok, at |-> now[r]])
           /\ resp' = IF res.ok THEN resp
                      ELSE [resp EXCEPT ![r] =
                              Error(@, StatusText(StatusTooManyRequests),
                                    StatusTooManyRequests)]
           /\ stack' = [stack EXCEPT ![r] = Call(@, "served")]
    /\ now' = [now EXCEPT ![r] = 0]
    /\ UNCHANGED <<conn, events, timesCalled>>
    /\ UNCHANGED <<cfgVars, obsVars, srvVars, clock>>

\* The decision under lim.mu, then either http.Error and return, or
\* h.ServeHTTP(w, r).
LimiterAllow(r) ==
    /\ Running(r)
    /\ Top(stack[r]).h.kind = "ratelimit" /\ Top(stack[r]).pc = "allow"
    /\ LET res == reserveN(limiter, now[r], 1)
       IN  /\ limiter' = res.lim
           /\ decisions' = Append(decisions, [ok |-> res.ok, at |-> now[r]])
           /\ IF res.ok
              THEN /\ stack' = [stack EXCEPT ![r] = Call(@, "served")]
                   /\ resp' = resp
              ELSE /\ resp' = [resp EXCEPT ![r] =
                                 Error(@, StatusText(StatusTooManyRequests),
                                       StatusTooManyRequests)]
                   /\ stack' = [stack EXCEPT ![r] = Return(@)]
    /\ now' = [now EXCEPT ![r] = 0]
    /\ UNCHANGED <<conn, events, timesCalled>>
    /\ UNCHANGED <<cfgVars, obsVars, srvVars, clock>>

\* The outermost handler returned: the server finishes the response (status
\* 200 if none was written) and the connection becomes idle.
Respond(r) ==
    /\ alive
    /\ conn[r] = "active" /\ stack[r] = <<>>
    /\ resp' = [resp EXCEPT ![r] = WriteHeader(@, StatusOK)]
    /\ conn' = [conn EXCEPT ![r] = "idle"]
    /\ UNCHANGED <<stack, now, events, timesCalled, decisions, limiter>>
    /\ UNCHANGED <<cfgVars, obsVars, srvVars, clock>>

\* http.Get(ts.URL) of the tests: the client sends its requests one after the
\* other, each when the previous one has been answered.
Get(r) ==
    /\ \A q \in Reqs : conn[q] # "active"
    /\ Accept(r)

\* panic(value) in the top frame of request r.  A panic that no frame
\* recovers reaches conn.serve of net/http, which recovers it, logs it and
\* closes the connection without a response; the process goes on.
Panic(r, value) ==
    /\ stack' = [stack EXCEPT ![r] = Unwind(@)]
    /\ panicking' = [panicking EXCEPT ![r] = value]
    /\ conn' = [conn EXCEPT ![r] = IF Unwind(stack[r]) = <<>> THEN "aborted" ELSE @]

LogEntry(h, level, status, value) ==
    [by |-> h.name, kind |-> h.kind, level |-> level, status |-> status, value |-> value]

\* Logger: rw := NewResponseWriter(w); startTime := time.Now(); h.ServeHTTP(rw, r)
LoggerBefore(r) ==
    /\ Running(r)
    /\ Top(stack[r]).h.kind = "logger" /\ Top(stack[r]).pc = "call"
    /\ info' = [info EXCEPT ![r] = NewResponseWriter(@)]
    /\ stack' = [stack EXCEPT ![r] = Call(@, "after")]
    /\ UNCHANGED <<conn, now, events, resp, timesCalled, decisions, limiter, logs, panicking>>
    /\ UNCHANGED <<cfgVars, srvVars, clock>>

\* Logger: the entry "request processed" with the field status: rw.statusCode.
LoggerAfter(r) ==
    /\ Running(r)
    /\ Top(stack[r]).h.kind = "logger" /\ Top(stack[r]).pc = "after"
    /\ logs' = [logs EXCEPT ![r] =
                  Append(@, LogEntry(Top(stack[r]).h, "info", info[r].statusCode, ""))]
    /\ stack' = [stack EXCEPT ![r] = Return(@)]
    /\ UNCHANGED <<conn, now, events, resp, timesCalled, decisions, limiter, info, panicking>>
    /\ UNCHANGED <<cfgVars, srvVars, clock>>

\* PanicRecovery: defer func() { ... }(); h.ServeHTTP(w, r)
RecoveryCall(r) ==
    /\ Running(r)
    /\ Top(stack[r]).h.kind = "recovery" /\ Top(stack[r]).pc = "call"
    /\ stack' = [stack EXCEPT ![r] = Call(@, "deferred")]
    /\ UNCHANGED <<conn, now, events, resp, timesCalled, decisions, limiter, obsVars>>
    /\ UNCHANGED <<cfgVars, srvVars, clock>>

\* Mutant of Recover: the deferred function panics again with the value it
\* recovered.
RecoverRepanic(r) ==
    /\ Running(r)
    /\ Top(stack[r]).h.kind = "recovery" /\ Top(stack[r]).pc = "recover"
    /\ logs' = [logs EXCEPT ![r] =
                  Append(@, LogEntry(Top(stack[r]).h, "error", 0, panicking[r]))]
    /\ stack' = [stack EXCEPT ![r] = Unwind(Pop(@))]
    /\ conn' = [conn EXCEPT ![r] = IF Unwind(Pop(stack[r])) = <<>> THEN "aborted" ELSE @]
    /\ UNCHANGED <<now, events, resp, timesCalled, decisions, limiter, info, panicking>>
    /\ UNCHANGED <<cfgVars, srvVars, clock>>

\* Mutant of Recover: the panic is logged with Fatalf, which exits the process.
RecoverFatal(r) ==
    /\ Running(r)
    /\ Top(stack[r]).h.kind = "recovery" /\ Top(stack[r]).pc = "recover"
    /\ logs' = [logs EXCEPT ![r] =
                  Append(@, LogEntry(Top(stack[r]).h, "fatal", 0, panicking[r]))]
    /\ alive' = FALSE
    /\ UNCHANGED <<listening, inShutdown, pc, notified, gracefulStop, deadline, shutdownErr,
                   lnerr, idleConnsClosed, shutdownCalls, sent, inFlight, expiredWith,
                   unanswered, steps>>
    /\ UNCHANGED <<cfgVars, reqVars, info, panicking, clock>>

\* PanicRecovery, the deferred function after a panic below it:
\* if r := recover(); r != nil { logger.Errorf("panic recovered: %s", r) },
\* and the frame returns to its caller.
Recover(r) ==
    /\ Running(r)
    /\ Top(stack[r]).h.kind = "recovery" /\ Top(stack[r]).pc = "recover"
    /\ logs' = [logs EXCEPT ![r] =
                  Append(@, LogEntry(Top(stack[r]).h, "error", 0, panicking[r]))]
    /\ panicking' = [panicking EXCEPT ![r] = ""]
    /\ stack' = [stack EXCEPT ![r] = Return(@)]
    /\ UNCHANGED <<conn, now, events, resp, timesCalled, decisions, limiter, info>>
    /\ UNCHANGED <<cfgVars, srvVars, clock>>

\* Prometheus: the promhttp.InstrumentHandler... calls and
\* duration.MustCurryWith on the collectors the stage closed over (a nil
\* pointer dereference when they are nil), rw := NewResponseWriter(w),
\* handler.ServeHTTP(rw, r).
PrometheusBefore(r) ==
    /\ Running(r)
    /\ Top(stack[r]).h.kind = "prometheus" /\ Top(stack[r]).pc = "call"
    /\ IF Top(stack[r]).h.mw.collectors
       THEN /\ info' = [info EXCEPT ![r] = NewResponseWriter(@)]
            /\ stack' = [stack EXCEPT ![r] = Call(@, "after")]
            /\ UNCHANGED <<conn, panicking>>
       ELSE /\ Panic(r, NilDereference)
            /\ UNCHANGED info
    /\ UNCHANGED <<now, events, resp, timesCalled, decisions, limiter, logs>>
    /\ UNCHANGED <<cfgVars, srvVars, clock>>

\* Prometheus: counter.WithLabelValues(strconv.Itoa(rw.statusCode), r.Method).Inc()
PrometheusAfter(r) ==
    /\ Running(r)
    /\ Top(stack[r]).h.kind = "prometheus" /\ Top(stack[r]).pc = "after"
    /\ logs' = [logs EXCEPT ![r] =
                  Append(@, LogEntry(Top(stack[r]).h, "count", info[r].statusCode, ""))]
    /\ stack' = [stack EXCEPT ![r] = Return(@)]
    /\ UNCHANGED <<conn, now, events, resp, timesCalled, decisions, limiter, info, panicking>>
    /\ UNCHANGED <<cfgVars, srvVars, clock>>

\* The scripted handler: logs its name, counts itself, makes its calls on the
\* writer, then returns or panics.
Scripted(r) ==
    /\ Running(r)
    /\ Top(stack[r]).h.kind = "scripted"
    /\ events' = [events EXCEPT ![r] = Append(@, Top(stack[r]).h.name)]
    /\ timesCalled' = timesCalled + 1
    /\ LET st == ServeScript(Top(stack[r]).h.script, [rw |-> info[r], w |-> resp[r]])
       IN  /\ resp' = [resp EXCEPT ![r] = st.w]
           /\ info' = [info EXCEPT ![r] = st.rw]
    /\ \/ /\ stack' = [stack EXCEPT ![r] = Return(@)]
          /\ UNCHANGED <<conn, panicking>>
       \/ Panic(r, PanicValue)
    /\ UNCHANGED <<now, decisions, limiter, logs>>
    /\ UNCHANGED <<cfgVars, srvVars, clock>>

\* Time passes, as far as the code can tell: the limiter reads the clock up
\* to MaxClock, the context of the drain until its deadline has passed.
Tick ==
    /\ alive
    /\ \/ HasLimiter(chain) /\ clock < MaxClock
       \/ deadline >= 0 /\ clock < deadline
    /\ clock' = clock + 1
    /\ UNCHANGED <<cfgVars, obsVars, reqVars, srvVars>>

\* ------------------------------------------------- the middleware tests
\* httptest.NewServer(AddMiddlewares(handler, chain...)) with a fresh
\* RateLimiter(interval, limit, burst); GracefulShutdown is not called.
InitRequests ==
    /\ clock = 0
    /\ conn = [r \in Reqs |-> "none"]
    /\ stack = [r \in Reqs |-> <<>>]
    /\ now = [r \in Reqs |-> 0]
    /\ events = [r \in Reqs |-> <<>>]
    /\ resp = [r \in Reqs |-> NoResponse]
    /\ timesCalled = 0
    /\ decisions = <<>>
    /\ info = [r \in Reqs |-> NoInfo]
    /\ logs = [r \in Reqs |-> <<>>]
    /\ panicking = [r \in Reqs |-> ""]

InitNoShutdown ==
    /\ alive = TRUE /\ listening = TRUE /\ inShutdown = FALSE
    /\ waitTime = 0 /\ logger = FALSE
    /\ pc = "none" /\ notified = {} /\ gracefulStop = <<>>
    /\ deadline = -1 /\ shutdownErr = "none" /\ lnerr = FALSE
    /\ idleConnsClosed = 0 /\ shutdownCalls = 0
    /\ sent = 0 /\ inFlight = {}
    /\ expiredWith = {} /\ unanswered = {}
    /\ steps = <<>>

InitChain ==
    /\ chain \in Chains
    /\ handlerWithMiddleware = AddMiddlewares(terminalHandler(<<>>), chain)
    /\ \E limit \in 1..MaxLimit, burst \in 1..MaxBurst :
          /\ HasLimiter(chain) \/ (limit = 1 /\ burst = 1)
          /\ args = [interval |-> Interval, limit |-> limit, burst |-> burst]
          /\ limiter = RateLimiterLimiter(Interval, limit, burst)
    /\ InitRequests
    /\ InitNoShutdown

\* httptest.NewServer(AddMiddlewares(handler, chain...)) with the chains of
\* Logger, PanicRecovery and Prometheus stages and a scripted handler.
InitObs ==
    /\ chain \in ObsChains
    /\ \E script \in Scripts :
          handlerWithMiddleware = AddMiddlewares(scriptedHandler(script), chain)
    /\ args = [interval |-> Interval, limit |-> 1, burst |-> 1]
    /\ limiter = RateLimiterLimiter(Interval, 1, 1)
    /\ InitRequests
    /\ InitNoShutdown

NextObs ==
    \/ \E r \in Reqs : Get(r)
    \/ \E r \in Reqs : RecordBefore(r)
    \/ \E r \in Reqs : RecordAfter(r)
    \/ \E r \in Reqs : LoggerBefore(r)
    \/ \E r \in Reqs : LoggerAfter(r)
    \/ \E r \in Reqs : RecoveryCall(r)
    \/ \E r \in Reqs : Recover(r)
    \/ \E r \in Reqs : PrometheusBefore(r)
    \/ \E r \in Reqs : PrometheusAfter(r)
    \/ \E r \in Reqs : Scripted(r)
    \/ \E r \in Reqs : Respond(r)

SpecObs == InitObs /\ [][NextObs]_vars

\* The limiter of a RateLimiter stage by itself: limiter.Allow() is called by
\* up to MaxCalls requests, each with the time it read at t, not after the
\* time at which it takes lim.mu.
AllowAt(t) ==
    /\ alive /\ Len(decisions) < MaxCalls
    /\ LET res == reserveN(limiter, t, 1)
       IN  /\ limiter' = res.lim
           /\ decisions' = Append(decisions, [ok |-> res.ok, at |-> t])
    /\ UNCHANGED <<conn, stack, now, events, resp, timesCalled>>
    /\ UNCHANGED <<cfgVars, obsVars, srvVars, clock>>

InitLimiter ==
    /\ chain = <<RateLimiter>>
    /\ handlerWithMiddleware = AddMiddlewares(terminalHandler(<<>>), chain)
    /\ \E limit \in 1..MaxLimit, burst \in 1..MaxBurst :
          /\ args = [interval |-> Interval, limit |-> limit, burst |-> burst]
          /\ limiter = RateLimiterLimiter(Interval, limit, burst)
    /\ InitRequests
    /\ InitNoShutdown

Allow == \E t \in 0..clock : AllowAt(t)

NextLimiter ==
    \/ Allow
    \/ Tick

SpecLimiter == InitLimiter /\ [][NextLimiter]_vars

NextChain ==
    \/ \E r \in Reqs : Accept(r)
    \/ \E r \in Reqs : RecordBefore(r)
    \/ \E r \in Reqs : RecordAfter(r)
    \/ \E r \in Reqs : Terminal(r)
    \/ \E r \in Reqs : LimiterNow(r)
    \/ \E r \in Reqs : LimiterAllow(r)
    \/ \E r \in Reqs : Respond(r)
    \/ Tick

SpecChain == InitChain /\ [][NextChain]_vars

\* ------------------------------------------------------ GracefulShutdown
Signals == {"SIGTERM", "SIGINT"}

Done(r) == conn[r] \in {"idle", "closed"}

\* server.ListenAndServe() starts accepting; after Shutdown it returns
\* ErrServerClosed at once.
ListenAndServe ==
    /\ alive /\ ~listening /\ ~inShutdown
    /\ listening' = TRUE
    /\ UNCHANGED <<alive, inShutdown, pc, notified, gracefulStop, deadline, shutdownErr,
                   lnerr, idleConnsClosed, shutdownCalls, sent, inFlight,
                   expiredWith, unanswered, steps>>
    /\ UNCHANGED <<cfgVars, obsVars, reqVars, clock>>

\* A SIGINT or SIGTERM is delivered to the process.  A signal under
\* signal.Notify is sent to gracefulStop without blocking (dropped when the
\* buffer is full); any other one kills the process.
Signal(sig) ==
    /\ alive /\ sent < MaxSignals
    /\ sent' = sent + 1
    /\ inFlight' = IF sent = 0 THEN { r \in Reqs : conn[r] = "active" } ELSE inFlight
    /\ \/ /\ sig \in notified
          /\ gracefulStop' = IF Len(gracefulStop) < 1 THEN Append(gracefulStop, sig)
                             ELSE gracefulStop
          /\ alive' = alive
       \/ /\ sig \notin notified
          /\ alive' = FALSE
          /\ UNCHANGED gracefulStop
    /\ UNCHANGED <<listening, inShutdown, pc, notified, deadline, shutdownErr, lnerr,
                   idleConnsClosed, shutdownCalls, expiredWith, unanswered,
                   steps>>
    /\ UNCHANGED <<cfgVars, obsVars, reqVars, clock>>

\* One step of the goroutine that leaves the server and the requests alone.
GoStep(from, to) ==
    /\ alive /\ pc = from
    /\ pc' = to
    /\ UNCHANGED <<alive, listening, sent, inFlight>>
    /\ UNCHANGED <<cfgVars, obsVars, reqVars, clock>>

\* gracefulStop := make(chan os.Signal, 1); signal.Notify(gracefulStop, syscall.SIGTERM)
NotifyTerm ==
    /\ GoStep("start", "notify")
    /\ notified' = notified \cup {"SIGTERM"}
    /\ UNCHANGED <<inShutdown, gracefulStop, deadline, shutdownErr, lnerr, idleConnsClosed,
                   shutdownCalls, expiredWith, unanswered, steps>>

\* signal.Notify(gracefulStop, syscall.SIGINT)
NotifyInt ==
    /\ GoStep("notify", "wait")
    /\ notified' = notified \cup {"SIGINT"}
    /\ UNCHANGED <<inShutdown, gracefulStop, deadline, shutdownErr, lnerr, idleConnsClosed,
                   shutdownCalls, expiredWith, unanswered, steps>>

\* Mutant of Receive: a receive that does not block on an empty channel.
ReceiveNonBlocking ==
    /\ GoStep("wait", "info")
    /\ gracefulStop' = IF gracefulStop = <<>> THEN gracefulStop ELSE Tail(gracefulStop)
    /\ UNCHANGED <<inShutdown, notified, deadline, shutdownErr, lnerr, idleConnsClosed,
                   shutdownCalls, expiredWith, unanswered, steps>>

\* <-gracefulStop
Receive ==
    /\ GoStep("wait", "info")
    /\ gracefulStop # <<>>
    /\ gracefulStop' = Tail(gracefulStop)
    /\ UNCHANGED <<inShutdown, notified, deadline, shutdownErr, lnerr, idleConnsClosed,
                   shutdownCalls, expiredWith, unanswered, steps>>

\* if logger != nil { logger.Infof("shutting down server, draining connections") }
DrainStart ==
    /\ GoStep("info", "ctx")
    /\ steps' = IF logger THEN Append(steps, "Infof") ELSE steps
    /\ UNCHANGED <<inShutdown, notified, gracefulStop, deadline, shutdownErr, lnerr,
                   idleConnsClosed, shutdownCalls, expiredWith, unanswered>>

\* ctx, cancelFunc := context.WithTimeout(context.Background(), waitTime)
WithTimeout ==
    /\ GoStep("ctx", "shutdown")
    /\ deadline' = clock + waitTime
    /\ UNCHANGED <<inShutdown, notified, gracefulStop, shutdownErr, lnerr, idleConnsClosed,
                   shutdownCalls, expiredWith, unanswered, steps>>

\* server.Shutdown(ctx) is entered: inShutdown is set and the listeners are
\* closed, which may fail.
ShutdownCall ==
    /\ alive /\ pc = "shutdown"
    /\ pc' = "poll"
    /\ shutdownCalls' = shutdownCalls + 1
    /\ steps' = Append(steps, "Shutdown")
    /\ inShutdown' = TRUE
    /\ listening' = FALSE
    /\ lnerr' \in BOOLEAN
    /\ UNCHANGED <<alive, notified, gracefulStop, deadline, shutdownErr, idleConnsClosed,
                   sent, inFlight, expiredWith, unanswered>>
    /\ UNCHANGED <<cfgVars, obsVars, reqVars, clock>>

\* Mutant of ShutdownPoll: Shutdown returns without waiting for the active
\* connections.
ShutdownPollNoWait ==
    /\ alive /\ pc = "poll"
    /\ conn' = [r \in Reqs |-> IF conn[r] = "idle" THEN "closed" ELSE conn[r]]
    /\ pc' = "returned"
    /\ shutdownErr' = IF lnerr THEN "listener" ELSE "nil"
    /\ UNCHANGED <<alive, listening, inShutdown, notified, gracefulStop, deadline, lnerr,
                   idleConnsClosed, shutdownCalls, sent, inFlight, expiredWith,
                   unanswered, steps>>
    /\ UNCHANGED <<cfgVars, obsVars, stack, now, events, resp, timesCalled, decisions, limiter, clock>>

\* The loop of Shutdown: closeIdleConns() closes the idle connections and
\* reports whether none is active; Shutdown then returns the listener error.
ShutdownPoll ==
    /\ alive /\ pc = "poll"
    /\ conn' = [r \in Reqs |-> IF conn[r] = "idle" THEN "closed" ELSE conn[r]]
    /\ IF \A r \in Reqs : conn[r] # "active"
       THEN /\ pc' = "returned"
            /\ shutdownErr' = IF lnerr THEN "listener" ELSE "nil"
       ELSE /\ pc' = "select"
            /\ UNCHANGED shutdownErr
    /\ UNCHANGED <<alive, listening, inShutdown, notified, gracefulStop, deadline, lnerr,
                   idleConnsClosed, shutdownCalls, sent, inFlight, expiredWith,
                   unanswered, steps>>
    /\ UNCHANGED <<cfgVars, obsVars, stack, now, events, resp, timesCalled, decisions, limiter, clock>>

\* select { case <-ctx.Done(): return ctx.Err() ... }: the deadline has passed.
ShutdownExpired ==
    /\ GoStep("select", "returned")
    /\ clock >= deadline
    /\ shutdownErr' = "deadline"
    /\ expiredWith' = { r \in Reqs : conn[r] = "active" }
    /\ UNCHANGED <<inShutdown, notified, gracefulStop, deadline, lnerr, idleConnsClosed,
                   shutdownCalls, unanswered, steps>>

\* select { ... case <-timer.C: timer.Reset(nextPollInterval()) }
ShutdownTimer ==
    /\ GoStep("select", "poll")
    /\ UNCHANGED <<inShutdown, notified, gracefulStop, deadline, shutdownErr, lnerr,
                   idleConnsClosed, shutdownCalls, expiredWith, unanswered,
                   steps>>

\* Mutant of LogError: the error is logged without the test of logger.
LogErrorNilLogger ==
    /\ GoStep("returned", "close")
    /\ steps' = IF shutdownErr # "nil" THEN Append(steps, "Errorf") ELSE steps
    /\ UNCHANGED <<inShutdown, notified, gracefulStop, deadline, shutdownErr, lnerr,
                   idleConnsClosed, shutdownCalls, expiredWith, unanswered>>

\* Mutant of LogError: the goroutine returns after logging the error.
LogErrorAndReturn ==
    /\ GoStep("returned", IF shutdownErr # "nil" THEN "done" ELSE "close")
    /\ steps' = IF shutdownErr # "nil" /\ logger THEN Append(steps, "Errorf") ELSE steps
    /\ UNCHANGED <<inShutdown, notified, gracefulStop, deadline, shutdownErr, lnerr,
                   idleConnsClosed, shutdownCalls, expiredWith, unanswered>>

\* if err := server.Shutdown(ctx); err != nil { if logger != nil { logger.Errorf(...) } }
LogError ==
    /\ GoStep("returned", "close")
    /\ steps' = IF shutdownErr # "nil" /\ logger THEN Append(steps, "Errorf") ELSE steps
    /\ UNCHANGED <<inShutdown, notified, gracefulStop, deadline, shutdownErr, lnerr,
                   idleConnsClosed, shutdownCalls, expiredWith, unanswered>>

\* Mutant of Close: the goroutine waits for the next signal after the close.
CloseAndWaitAgain ==
    /\ GoStep("close", "wait")
    /\ idleConnsClosed' = idleConnsClosed + 1
    /\ steps' = Append(steps, "close")
    /\ unanswered' = { r \in inFlight : ~Done(r) }
    /\ UNCHANGED <<inShutdown, notified, gracefulStop, deadline, shutdownErr, lnerr,
                   shutdownCalls, expiredWith>>

\* close(idleConnsClosed); the goroutine ends.
Close ==
    /\ GoStep("close", "done")
    /\ idleConnsClosed' = idleConnsClosed + 1
    /\ steps' = Append(steps, "close")
    /\ unanswered' = { r \in inFlight : ~Done(r) }
    /\ UNCHANGED <<inShutdown, notified, gracefulStop, deadline, shutdownErr, lnerr,
                   shutdownCalls, expiredWith>>

Coordinator ==
    \/ NotifyTerm \/ NotifyInt \/ Receive \/ DrainStart \/ WithTimeout
    \/ ShutdownCall \/ ShutdownPoll \/ ShutdownExpired \/ ShutdownTimer
    \/ LogError \/ Close

\* Test_GracefulShutdown: GracefulShutdown(server, waitTime, logger) has
\* returned idleConnsClosed and started its goroutine; the handler of the
\* server is the slow handler, without middlewares.
Init ==
    /\ chain = <<>>
    /\ handlerWithMiddleware =
           AddMiddlewares(terminalHandler(<<"sorry for the delay...">>), chain)
    /\ args = [interval |-> Interval, limit |-> 1, burst |-> 1]
    /\ limiter = RateLimiterLimiter(Interval, 1, 1)
    /\ InitRequests
    /\ alive = TRUE /\ listening = FALSE /\ inShutdown = FALSE
    /\ waitTime \in 0..MaxWait /\ logger \in BOOLEAN
    /\ pc = "start" /\ notified = {} /\ gracefulStop = <<>>
    /\ deadline = -1 /\ shutdownErr = "none" /\ lnerr = FALSE
    /\ idleConnsClosed = 0 /\ shutdownCalls = 0
    /\ sent = 0 /\ inFlight = {}
    /\ expiredWith = {} /\ unanswered = {}
    /\ steps = <<>>

Next ==
    \/ ListenAndServe
    \/ \E r \in Reqs : Accept(r)
    \/ \E r \in Reqs : Terminal(r)
    \/ \E r \in Reqs : Respond(r)
    \/ \E sig \in Signals : Signal(sig)
    \/ Coordinator
    \/ Tick

Spec == Init /\ [][Next]_vars

\* The goroutine is scheduled, time passes, and a select with ctx.Done()
\* ready takes that case sooner or later.
SpecLive ==
    /\ Spec
    /\ WF_vars(Coordinator)
    /\ SF_vars(ShutdownExpired)
    /\ WF_vars(Tick)

\* GracefulShutdown(server, 0, logger) on a server whose handler is
\* AddMiddlewares(handler, PanicRecovery(logger)), the handler writing a
\* line and then returning or panicking.  The context of the drain is
\* expired when it is made, so no time has to pass: Shutdown returns when
\* it finds no connection active or when its select takes ctx.Done().
InitPanic ==
    /\ chain = <<PanicRecovery(StageNames[1])>>
    /\ handlerWithMiddleware =
           AddMiddlewares(scriptedHandler(<<[op |-> "Write", code |-> 0]>>), chain)
    /\ args = [interval |-> Interval, limit |-> 1, burst |-> 1]
    /\ limiter = RateLimiterLimiter(Interval, 1, 1)
    /\ InitRequests
    /\ alive = TRUE /\ listening = FALSE /\ inShutdown = FALSE
    /\ waitTime = 0 /\ logger = TRUE
    /\ pc = "start" /\ notified = {} /\ gracefulStop = <<>>
    /\ deadline = -1 /\ shutdownErr = "none" /\ lnerr = FALSE
    /\ idleConnsClosed = 0 /\ shutdownCalls = 0
    /\ sent = 0 /\ inFlight = {}
    /\ expiredWith = {} /\ unanswered = {}
    /\ steps = <<>>

NextPanic ==
    \/ ListenAndServe
    \/ \E r \in Reqs : Accept(r)
    \/ \E r \in Reqs : RecoveryCall(r)
    \/ \E r \in Reqs : Scripted(r)
    \/ \E r \in Reqs : Recover(r)
    \/ \E r \in Reqs : Respond(r)
    \/ \E sig \in Signals : Signal(sig)
    \/ Coordinator

SpecPanic == InitPanic /\ [][NextPanic]_vars

SpecPanicLive ==
    /\ SpecPanic
    /\ WF_vars(Coordinator)
    /\ SF_vars(ShutdownExpired)

\* ------------------------------------------------------------ properties

SlowResponse == [status |-> StatusOK, body |-> <<"sorry for the delay...">>]

Closed == idleConnsClosed >= 1

\* The goroutine has taken a signal out of gracefulStop.
Observed == pc \in {"info", "ctx", "shutdown", "poll", "select", "returned", "close", "done"}

\* C2: once idleConnsClosed is closed, every request that was executing when
\* the signal was sent and was not still executing when the deadline of the
\* drain expired had its complete response, status 200 with the handler's
\* body, before the close.
C2_DrainCompleteness ==
    Closed =>
        \A r \in inFlight \ expiredWith :
            /\ r \notin unanswered
            /\ Done(r)
            /\ resp[r] = SlowResponse

C2_Witness ==
    /\ Closed
    /\ inFlight = Reqs /\ expiredWith = {} /\ unanswered = {}
    /\ waitTime > 0 /\ shutdownErr = "nil"
    /\ \A r \in Reqs : resp[r] = SlowResponse

\* C3: server.Shutdown is called at most once and idleConnsClosed is closed
\* at most once, however many signals arrive; once the goroutine has ended,
\* each has happened exactly once.
C3_IdempotentShutdown ==
    /\ shutdownCalls <= 1
    /\ idleConnsClosed <= 1
    /\ idleConnsClosed <= shutdownCalls
    /\ pc = "done" => (shutdownCalls = 1 /\ idleConnsClosed = 1)

C3_Witness ==
    /\ alive /\ sent >= 2
    /\ pc = "done"
    /\ shutdownCalls = 1 /\ idleConnsClosed = 1

\* C4: when idleConnsClosed is closed, server.Shutdown has returned and no
\* request handler is still executing.
C4_NoHandlerAfterClose ==
    Closed =>
        /\ shutdownErr # "none"
        /\ \A r \in Reqs : conn[r] # "active"

\* C5: while no signal has been delivered, idleConnsClosed is open and
\* server.Shutdown has not been called, whatever requests are served.
C5_NoPrematureCompletion ==
    sent = 0 =>
        /\ idleConnsClosed = 0
        /\ shutdownCalls = 0
        /\ ~inShutdown
        /\ ~Observed

C5_Witness ==
    /\ sent = 0 /\ pc = "wait"
    /\ \A r \in Reqs : Done(r) /\ resp[r] = SlowResponse
    /\ idleConnsClosed = 0

\* C6: once the goroutine has observed a signal, idleConnsClosed is
\* eventually closed.
C6_CompletionLiveness == Observed ~> Closed

C6_Witness ==
    /\ Closed
    /\ shutdownErr = "deadline"
    /\ logger /\ steps = <<"Infof", "Shutdown", "Errorf", "close">>
    /\ \E r \in Reqs : conn[r] = "active"
Names(c) == [i \in 1..Len(c) |-> c[i].name]

IsPrefix(s, t) == Len(s) <= Len(t) /\ s = SubSeq(t, 1, Len(s))

\* What one request logs through a chain of recording stages.
OrderLaw(c) == Reverse(Names(c)) \o <<"the handler">> \o Names(c)

\* C1: with only recording stages registered, every request logs the stage
\* names in reverse registration order, then the handler once, then the
\* stage names in registration order; while it runs its log is a prefix of
\* that sequence.
C1_OrderingLaw ==
    ~HasLimiter(chain) =>
        \A r \in Reqs :
            /\ IsPrefix(events[r], OrderLaw(chain))
            /\ Done(r) => events[r] = OrderLaw(chain)

C1_Witness ==
    /\ Names(chain) = <<"one", "two", "three">>
    /\ \E r \in Reqs :
          /\ Done(r)
          /\ events[r] = <<"three", "two", "one", "the handler", "one", "two", "three">>

\* Position of the RateLimiter stage in the chain (0 if there is none).
LimiterAt(c) == IF HasLimiter(c) THEN CHOOSE i \in 1..Len(c) : c[i].kind = "ratelimit" ELSE 0

InnerNames(c) == { c[i].name : i \in 1..(LimiterAt(c) - 1) }

OuterNames(c) == SubSeq(Names(c), LimiterAt(c) + 1, Len(c))

Logged(r) == { events[r][i] : i \in 1..Len(events[r]) }

Rejected(r) == resp[r].status = StatusTooManyRequests

\* C8: a request the RateLimiter stage rejects logs nothing from the
\* terminal handler or from a stage registered before the limiter, the
\* handler's execution counter counts only requests that reached it, the
\* response is 429 "Too Many Requests", and the stages registered after the
\* limiter run their before and after logic around the rejection.
C8_ShortCircuit ==
    HasLimiter(chain) =>
        /\ timesCalled = Cardinality({ r \in Reqs : "the handler" \in Logged(r) })
        /\ \A r \in Reqs : Rejected(r) =>
              /\ Logged(r) \cap (InnerNames(chain) \cup {"the handler"}) = {}
              /\ resp[r] = [status |-> StatusTooManyRequests,
                            body |-> <<"Too Many Requests">>]
              /\ IsPrefix(events[r], Reverse(OuterNames(chain)) \o OuterNames(chain))
              /\ Done(r) => events[r] = Reverse(OuterNames(chain)) \o OuterNames(chain)

C8_Witness ==
    /\ Len(chain) = 3 /\ LimiterAt(chain) = 2
    /\ timesCalled = 1
    /\ \E r \in Reqs : Rejected(r) /\ Done(r) /\ events[r] = <<"three", "three">>

Admissions == Cardinality({ i \in 1..Len(decisions) : decisions[i].ok })

\* Tokens available to the first caller of a fresh limiter.
Available == advance(RateLimiterLimiter(args.interval, args.limit, args.burst), 0)
                 \div args.interval

\* C7: on a fresh RateLimiter(interval, L, B), of B+1 requests decided with
\* no elapsed time the first B are admitted and the next one is rejected,
\* and a request made one interval later is admitted.
C7_TokenBucketAdmission ==
    HasLimiter(chain) =>
        \A i \in 1..Len(decisions) :
            /\ (i <= args.burst + 1 /\ \A j \in 1..i : decisions[j].at = 0)
                  => (decisions[i].ok <=> i <= args.burst)
            /\ (i = args.burst + 2 /\ (\A j \in 1..(i - 1) : decisions[j].at = 0)
                  /\ decisions[i].at >= args.interval)
                  => decisions[i].ok

\* C9: while no time has elapsed, of the callers that went through the
\* limiter exactly min(k, callers) were admitted, k being the tokens
\* available, and the bucket holds what is left of the k tokens.
C9_LinearizableAdmission ==
    (HasLimiter(chain) /\ clock = 0) =>
        /\ Admissions = Min(Available, Len(decisions))
        /\ decisions # <<>> =>
              limiter.tokens = (Available - Admissions) * limiter.every

C9_Witness ==
    /\ HasLimiter(chain) /\ clock = 0
    /\ Len(decisions) = 2 /\ Available = 1 /\ Admissions = 1
    /\ \A r \in Reqs : Done(r)

\* C10: the stored token count is within [0, burst].
C10_TokensWithinBurst ==
    HasLimiter(chain) =>
        /\ limiter.tokens >= 0
        /\ limiter.tokens <= limiter.burst * limiter.every

\* The limiter after the admitted ones of decisions ds, the refused ones left out.
RECURSIVE AdmittedOnly(_, _)
AdmittedOnly(lim, ds) ==
    IF ds = <<>> THEN lim
    ELSE AdmittedOnly(IF Head(ds).ok THEN reserveN(lim, Head(ds).at, 1).lim ELSE lim,
                      Tail(ds))

\* C13: the refused requests leave no trace in the bucket: the limiter is
\* what the admitted requests alone made of the fresh limiter (so its tokens
\* at any later time are those of the refill alone), and every decision was
\* the one the limiter would have taken had the refused requests before it
\* never been made.
C13_RejectionLeavesBucket ==
    LET fresh == RateLimiterLimiter(args.interval, args.limit, args.burst)
    IN  /\ limiter = AdmittedOnly(fresh, decisions)
        /\ \A i \in 1..Len(decisions) :
              decisions[i].ok =
                  reserveN(AdmittedOnly(fresh, SubSeq(decisions, 1, i - 1)),
                           decisions[i].at, 1).ok

C13_Witness ==
    \E i, j \in 1..Len(decisions) :
        /\ i < j /\ ~decisions[i].ok /\ decisions[j].ok
        /\ decisions[j].at > decisions[i].at

\* ------------------------------------- Logger, PanicRecovery, Prometheus
RecoveryAt(c) ==
    IF \E i \in 1..Len(c) : c[i].kind = "recovery"
    THEN CHOOSE i \in 1..Len(c) : c[i].kind = "recovery" ELSE 0

RECURSIVE TerminalOf(_)
TerminalOf(h) == IF h.kind \in {"handler", "scripted"} THEN h ELSE TerminalOf(h.next)

\* The names of the stages lo..Len(c) of chain c whose kind is in kinds.
NamesFrom(c, lo, kinds) ==
    LET sel == SelectSeq(SubSeq(c, lo, Len(c)), LAMBDA m : m.kind \in kinds)
    IN  [i \in 1..Len(sel) |-> sel[i].name]

\* The entries of PanicRecovery in the log of request r.
Recoveries(r) == SelectSeq(logs[r], LAMBDA e : e.kind = "recovery")

\* The stages that logged or counted request r after their h.ServeHTTP returned.
AfterLogs(r) ==
    LET sel == SelectSeq(logs[r], LAMBDA e : e.kind \in {"logger", "prometheus"})
    IN  [i \in 1..Len(sel) |-> sel[i].by]

\* A panic was raised while request r was served.
Panicked(r) == panicking[r] # "" \/ Recoveries(r) # <<>>

HandlerRan(r) == "the handler" \in Logged(r)

\* Chain c has a PanicRecovery stage and no stage after it raises a panic of
\* its own: every panic of a request is raised below PanicRecovery.
Guarded(c) ==
    /\ RecoveryAt(c) > 0
    /\ \A i \in (RecoveryAt(c) + 1)..Len(c) :
          ~(c[i].kind = "prometheus" /\ ~c[i].collectors)

\* What the handler wrote for request r before it returned or panicked.
Written(r) ==
    IF HandlerRan(r)
    THEN ServeScript(TerminalOf(handlerWithMiddleware).script,
                     [rw |-> NoInfo, w |-> NoResponse]).w
    ELSE NoResponse

\* C11: when a handler below PanicRecovery panics, the process goes on, the
\* panic does not reach the server (the request's caller), what was written
\* of the response stands and the request is answered, and once the
\* PanicRecovery frame has returned the log holds exactly one entry of
\* PanicRecovery, an error with the panic value.
C11_PanicIsolation ==
    /\ alive
    /\ \A r \in Reqs : (Guarded(chain) /\ Panicked(r)) =>
          /\ conn[r] # "aborted"
          /\ Len(Recoveries(r)) = (IF panicking[r] = "" THEN 1 ELSE 0)
          /\ \A i \in 1..Len(Recoveries(r)) :
                /\ Recoveries(r)[i].level = "error"
                /\ Recoveries(r)[i].value \in {PanicValue, NilDereference}
                /\ HandlerRan(r) => Recoveries(r)[i].value = PanicValue
          /\ resp[r] = IF Done(r) THEN WriteHeader(Written(r), StatusOK) ELSE Written(r)

C11_Witness ==
    /\ RecoveryAt(chain) = 2
    /\ conn[1] = "idle" /\ Len(Recoveries(1)) = 1 /\ Recoveries(1)[1].value = PanicValue
    /\ resp[1].status \in Codes /\ resp[1].body # <<>>
    /\ conn[2] = "idle"

\* C20: when the terminal handler panics below PanicRecovery, the answered
\* request shows the before logic of every stage, and the after logic of
\* exactly the stages registered after PanicRecovery: the recording stages
\* before it logged once, those after it twice, and only the Logger and
\* Prometheus stages after it logged or counted the request.
C20_AfterLogicAroundRecovery ==
    \A r \in Reqs :
        (RecoveryAt(chain) > 0 /\ HandlerRan(r) /\ Panicked(r) /\ Done(r)) =>
            /\ events[r] = Reverse(NamesFrom(chain, 1, {"record"}))
                              \o <<"the handler">>
                              \o NamesFrom(chain, RecoveryAt(chain) + 1, {"record"})
            /\ AfterLogs(r) = NamesFrom(chain, RecoveryAt(chain) + 1, {"logger", "prometheus"})
            /\ NamesFrom(chain, 1, {"logger", "prometheus"}) # <<>> => info[r].wrapped

C20_Witness ==
    /\ Len(chain) = 3 /\ RecoveryAt(chain) = 2
    /\ chain[1].kind = "logger"
    /\ \E r \in Reqs : /\ Done(r) /\ HandlerRan(r) /\ Panicked(r)
                        /\ info[r].wrapped
                        /\ AfterLogs(r) = <<chain[3].name>>

\* C14: the status Logger logs and Prometheus counts for an answered request
\* is the status that was sent.
C14_RecordedStatusIsSent ==
    \A r \in Reqs : Done(r) =>
        \A i \in 1..Len(logs[r]) :
            logs[r][i].kind \in {"logger", "prometheus"} => logs[r][i].status = resp[r].status

\* C12: a Prometheus stage, whichever call of Prometheus() returned it,
\* serves a request without a fault of its own and counts each request that
\* it passed on and that came back without a panic.
C12_PrometheusReusable ==
    \A r \in Reqs :
        /\ panicking[r] # NilDereference
        /\ \A i \in 1..Len(logs[r]) : logs[r][i].value # NilDereference
        /\ (Done(r) /\ ~Panicked(r)) =>
              AfterLogs(r) = NamesFrom(chain, 1, {"logger", "prometheus"})

\* ------------------------------------------------ the drain, continued
BodyResponse == [status |-> StatusOK, body |-> <<"body">>]

\* C15: with PanicRecovery in the chain, a panic in one request leaves the
\* other requests and the drain alone: the process goes on, no connection
\* is dropped, every answered request whose handler did not panic has its
\* normal response from one full run of the handler, and a drain whose
\* signal was taken before, during or after the panic ends with the close
\* of idleConnsClosed.
C15_PanicLeavesOthersAndDrain ==
    /\ [](\A r \in Reqs :
            /\ conn[r] # "aborted"
            /\ (Done(r) /\ ~Panicked(r)) =>
                  (resp[r] = BodyResponse /\ events[r] = <<"the handler">>))
    /\ [](sent = 0 => alive)
    /\ (Observed ~> Closed)

C15_Witness ==
    /\ Closed /\ shutdownErr = "nil"
    /\ Recoveries(1) # <<>> /\ Done(1)
    /\ ~Panicked(2) /\ Done(2) /\ resp[2] = BodyResponse
    /\ inFlight = {1, 2}

\* The state of the server's lifecycle.
Lifecycle ==
    IF shutdownErr # "none" THEN "Closed"
    ELSE IF inShutdown THEN "Draining" ELSE "Running"

StepsAt(at) ==
    LET info_ == IF logger THEN <<"Infof">> ELSE <<>>
        err   == IF shutdownErr # "nil" /\ logger THEN <<"Errorf">> ELSE <<>>
    IN  CASE at \in {"start", "notify", "wait", "info"} -> <<>>
          [] at \in {"ctx", "shutdown"} -> info_
          [] at \in {"poll", "select", "returned"} -> info_ \o <<"Shutdown">>
          [] at = "close" -> info_ \o <<"Shutdown">> \o err
          [] at = "done" -> info_ \o <<"Shutdown">> \o err \o <<"close">>

\* C17: the goroutine logs Infof (with a logger), calls Shutdown once with a
\* context that ends waitTime after it was made (the clock stands at 0 until
\* then), logs Errorf exactly when Shutdown returned an error and there is a
\* logger, and closes idleConnsClosed, in this order; nothing is done before
\* a signal was taken, and without a logger nothing is logged.
C17_CoordinatorSequence ==
    /\ steps = StepsAt(pc)
    /\ shutdownCalls <= 1
    /\ steps # <<>> => sent >= 1
    /\ pc \in {"shutdown", "poll", "select", "returned", "close", "done"} =>
          deadline = waitTime

C17_Witness ==
    /\ pc = "done"
    /\ steps = <<"Infof", "Shutdown", "Errorf", "close">>

\* C18: with waitTime <= 0, once idleConnsClosed is closed Shutdown was
\* called with a context already expired, no handler is still executing (the
\* handlers in flight were closed by force), and the close happened once.
C18_NoGraceForceClose ==
    (waitTime <= 0 /\ Closed) =>
        /\ shutdownCalls = 1 /\ deadline <= 0
        /\ \A r \in Reqs : conn[r] # "active"
        /\ idleConnsClosed = 1

\* C19: a signal sent after GracefulShutdown returned is relayed to
\* gracefulStop: it does not end the process.
C19_SignalCaptured == sent >= 1 => alive

\* ------------------------------------------------ the limit argument
\* The decisions a limiter takes for limiter.Allow() calls at the times ts.
RECURSIVE DecisionsOf(_, _)
DecisionsOf(lim, ts) ==
    IF ts = <<>> THEN <<>>
    ELSE LET res == reserveN(lim, Head(ts), 1)
         IN  <<res.ok>> \o DecisionsOf(res.lim, Tail(ts))

\* C21: the decisions taken for the requests made so far are those a stage
\* built with the same interval and burst and any other limit takes for
\* requests at the same times.
C21_LimitHasNoEffect ==
    LET times == [i \in 1..Len(decisions) |-> decisions[i].at]
        oks   == [i \in 1..Len(decisions) |-> decisions[i].ok]
    IN  \A l \in 1..MaxLimit :
            DecisionsOf(RateLimiterLimiter(args.interval, l, args.burst), times) = oks

====
